---- MODULE Spec2Model ----
(***************************************************************************)
(* ReAct data-analysis agent: the Plan / Act / Observe loop of             *)
(* DataAnalysisAgent (src/src/agent/react_agent.py), the execute_python    *)
(* tool (src/src/tools/code_executor.py) and the CodeSandbox engine        *)
(* (src/src/tools/sandbox.py).                                             *)
(*                                                                         *)
(* Text is modelled as a sequence of tokens.  The protocol substrings the  *)
(* code searches for ("TASK_COMPLETE", "CODE_TO_EXECUTE:", the markdown    *)
(* fences, "Code executed successfully", "Generated plot available at:")   *)
(* are tokens of their own, so Python's (needle in text) is membership of  *)
(* the token in the sequence, str.split cuts at the token and str.strip    *)
(* drops leading and trailing whitespace tokens.  The markdown fence of    *)
(* three backquotes is written with three apostrophes.                     *)
(***************************************************************************)
EXTENDS Integers, Sequences, FiniteSets, TLC

VARIABLES
    messages,        \* AgentState.messages: sequence of [role, content]
    iteration,       \* AgentState.iteration
    max_iterations,  \* AgentState.max_iterations
    task_complete,   \* AgentState.task_complete
    pc,              \* position of the run in the compiled graph
    error,           \* exception that ended the run, "none" otherwise
    now,             \* int(time.time()) as read by the engine
    outputDir,       \* files of CodeSandbox.output_dir: [name, exec]
    tempDirs,        \* temporary directories present on disk: [dir, files]
    procs,           \* operating-system processes alive: [exec, role]
    execs,           \* log of the engine invocations made so far
    steps,           \* how often each node ran and the reasoner was called
    extraction,      \* the last _extract_code call: [response, code]
    lastAct,         \* what the last Act step did
    lastObs          \* what the last Observe step did

vars == <<messages, iteration, max_iterations, task_complete, pc, error,
          now, outputDir, tempDirs, procs, execs, steps, extraction,
          lastAct, lastObs>>

-----------------------------------------------------------------------------
(* Bounds *)

MaxIterations == 2
MaxClock == 1
\* longest response text handed to _extract_code on its own
MaxLen == 4

-----------------------------------------------------------------------------
(* Protocol tokens *)

NL == "\n"
SP == " "
None == "None"
SENTINEL == "TASK_COMPLETE"
MARKER == "CODE_TO_EXECUTE:"
FENCE_PY == "'''python"
FENCE == "'''"
SUCCESS_MSG == "Code executed successfully"
PLOT_MSG == "Generated plot available at:"

-----------------------------------------------------------------------------
(* String helpers *)

\* Python: needle in text
Contains(text, tok) == \E i \in DOMAIN text : text[i] = tok

\* index of the first occurrence of tok in text, 0 when absent
IndexOf(text, tok) ==
    IF Contains(text, tok)
    THEN CHOOSE i \in DOMAIN text :
            text[i] = tok /\ \A j \in 1..(i - 1) : text[j] # tok
    ELSE 0

\* number of occurrences of tok in text
Count(text, tok) == Cardinality({i \in DOMAIN text : text[i] = tok})

\* Python: text.split(tok)[0]
BeforeFirst(text, tok) ==
    IF Contains(text, tok) THEN SubSeq(text, 1, IndexOf(text, tok) - 1)
    ELSE text

\* Python: text.split(tok, 1)[1]
AfterFirst(text, tok) == SubSeq(text, IndexOf(text, tok) + 1, Len(text))

\* Python: text.split(tok)[1], for a text that holds tok
SecondPart(text, tok) == BeforeFirst(AfterFirst(text, tok), tok)

IsSpace(tok) == tok \in {NL, SP}

RECURSIVE LStrip(_)
LStrip(text) ==
    IF text # <<>> /\ IsSpace(Head(text)) THEN LStrip(Tail(text)) ELSE text

RECURSIVE RStrip(_)
RStrip(text) ==
    IF text # <<>> /\ IsSpace(text[Len(text)])
    THEN RStrip(SubSeq(text, 1, Len(text) - 1))
    ELSE text

\* Python: text.strip()
Strip(text) == RStrip(LStrip(text))

\* Python: text.upper(), on the tokens the sentinel test can see
Upper(text) ==
    [i \in DOMAIN text |->
        IF text[i] = "task_complete" THEN SENTINEL ELSE text[i]]

-----------------------------------------------------------------------------
(* DataAnalysisAgent._extract_code *)

\* variant: case 2 also asks for a middle segment that is not blank
extract_code_nonblank_middle(content) ==
    IF Contains(content, FENCE_PY)
    THEN Strip(BeforeFirst(SecondPart(content, FENCE_PY), FENCE))
    ELSE IF /\ Contains(content, FENCE) /\ Count(content, FENCE) + 1 > 2
            /\ Strip(SecondPart(content, FENCE)) # <<>>
    THEN Strip(SecondPart(content, FENCE))
    ELSE Strip(content)

extract_code(content) ==
    IF Contains(content, FENCE_PY)
    THEN Strip(BeforeFirst(SecondPart(content, FENCE_PY), FENCE))
    ELSE IF Contains(content, FENCE) /\ Count(content, FENCE) + 1 > 2
    THEN Strip(SecondPart(content, FENCE))
    ELSE Strip(content)

-----------------------------------------------------------------------------
(* CodeSandbox (src/src/tools/sandbox.py) *)

TIMEOUT_STDERR == <<"Execution timeout expired ({self.timeout}s).">>

\* CodeSandbox.__init__: timeout: int = 30
timeout == 30

\* tempfile.TemporaryDirectory(): a fresh, empty directory
MkTemp(dirs, d) == dirs \cup {[dir |-> d, files |-> {}]}

\* a file written into directory d
WriteFile(dirs, d, f) ==
    {IF t.dir = d THEN [t EXCEPT !.files = @ \cup {f}] ELSE t : t \in dirs}

\* Path.rename moves the file out of directory d
MoveOut(dirs, d, f) ==
    {IF t.dir = d THEN [t EXCEPT !.files = @ \ {f}] ELSE t : t \in dirs}

\* Path.exists
Exists(dirs, d, f) == \E t \in dirs : t.dir = d /\ f \in t.files

\* variant: the directory is made with mkdtemp and never removed
Cleanup_leaks(dirs, d) == dirs

\* leaving the with block removes the directory and all of its contents
Cleanup(dirs, d) == {t \in dirs : t.dir # d}

\* f"plot_{int(time.time())}.html" under output_dir
PlotName(t) == "plot_" \o ToString(t) \o ".html"
PlotPath(t) == "output/" \o PlotName(t)

\* variant: the file is renamed inside the workspace, not into output_dir
Persist_nowhere(dir, name, id) == dir

\* Path.rename into output_dir replaces a file of the same name
Persist(dir, name, id) ==
    {f \in dir : f.name # name} \cup {[name |-> name, exec |-> id]}

\* variant: the artifact path is reported only for a zero exit status
Result_plot_needs_success(success, stdout, stderr, plot_path) ==
    [success |-> success, stdout |-> stdout, stderr |-> stderr,
     plot_path |-> IF success THEN plot_path ELSE None]

Result(success, stdout, stderr, plot_path) ==
    [success |-> success, stdout |-> stdout, stderr |-> stderr,
     plot_path |-> plot_path]

NoResult == Result(FALSE, <<>>, <<>>, None)

Returned(result, out, dirs, ps, t, found) ==
    [kind |-> "return", exc |-> "none", result |-> result,
     outputDir |-> out, tempDirs |-> dirs, procs |-> ps, now |-> t,
     found |-> found]

Raised(exc, out, dirs, ps, t) ==
    [kind |-> "raise", exc |-> exc, result |-> NoResult,
     outputDir |-> out, tempDirs |-> dirs, procs |-> ps, now |-> t,
     found |-> FALSE]

\* subprocess.run starts the interpreter on script.py; the script may start
\* a process of its own that outlives it
Launch(ps, id, spawned) ==
    ps \cup {[exec |-> id, role |-> "script"]}
       \cup (IF spawned THEN {[exec |-> id, role |-> "child"]} ELSE {})

\* the interpreter process ends by itself
Exited(ps, id) == ps \ {[exec |-> id, role |-> "script"]}

\* variant: the exception is passed on without killing the process
Kill_leaves_running(ps, id) == ps

\* subprocess.run on TimeoutExpired or on any other exception raised while
\* it waits: process.kill() and process.wait() on the process it started
Kill(ps, id) == ps \ {[exec |-> id, role |-> "script"]}

(***************************************************************************)
(* The environment of one invocation: o.mkdtemp and o.write say whether    *)
(* the workspace and the script file could be created, o.proc how          *)
(* subprocess.run ended (interrupt: the caller's interrupt reached it      *)
(* while it waited), o.stdout / o.stderr what the process printed,         *)
(* o.wrote whether it left output.html in its working directory, o.rename  *)
(* whether the move into output_dir succeeds, o.errtext the text of the    *)
(* exception raised by a failing call, o.spawned whether the script        *)
(* started a process of its own, and o.dt the seconds that pass before     *)
(* time.time() is read.                                                    *)
(***************************************************************************)
execute_code(code, o, id, dirs0, out0, ps0, t0) ==
    LET d      == id
        ps1    == Launch(ps0, id, o.spawned)
        dirs1  == MkTemp(dirs0, d)
        dirs2  == WriteFile(dirs1, d, "script.py")
        dirs3  == IF o.wrote THEN WriteFile(dirs2, d, "output.html") ELSE dirs2
        t      == t0 + o.dt
        found  == Exists(dirs3, d, "output.html")
        failed == Result(FALSE, <<>>, <<o.errtext>>, None)
    IN  IF o.mkdtemp = "fail"
        THEN Raised("OSError", out0, dirs0, ps0, t0)
        ELSE IF o.write = "fail"
        THEN Raised("UnicodeEncodeError", out0, Cleanup(dirs1, d), ps0, t0)
        ELSE IF o.proc = "timeout"
        THEN Returned(Result(FALSE, <<>>, TIMEOUT_STDERR, None),
                      out0, Cleanup(dirs3, d), Kill(ps1, id), t, FALSE)
        ELSE IF o.proc = "interrupt"
        THEN \* KeyboardInterrupt is no Exception: neither handler catches it,
             \* it leaves the with block and execute_code
             Raised("KeyboardInterrupt", out0, Cleanup(dirs3, d),
                    Kill(ps1, id), t)
        ELSE IF o.proc = "oserror"
        THEN Returned(failed, out0, Cleanup(dirs2, d), ps0, t, FALSE)
        ELSE IF found /\ o.rename = "fail"
        THEN Returned(failed, out0, Cleanup(dirs3, d), Exited(ps1, id), t, TRUE)
        ELSE IF found
        THEN Returned(Result(o.proc = "exit0", o.stdout, o.stderr, PlotPath(t)),
                      Persist(out0, PlotName(t), id),
                      Cleanup(MoveOut(dirs3, d, "output.html"), d),
                      Exited(ps1, id), t, TRUE)
        ELSE Returned(Result(o.proc = "exit0", o.stdout, o.stderr, None),
                      out0, Cleanup(dirs3, d), Exited(ps1, id), t, FALSE)

-----------------------------------------------------------------------------
(* execute_python_code (src/src/tools/code_executor.py) *)

\* variant: the plot line is appended after the if / else, on both branches
execute_python_code_plot_line_always(result) ==
    (IF result.success
     THEN <<SUCCESS_MSG, ".", NL>> \o result.stdout
     ELSE <<"Code execution failed with error:", NL>> \o result.stderr)
    \o (IF result.plot_path # None
        THEN <<NL, PLOT_MSG, SP, result.plot_path>>
        ELSE <<>>)

execute_python_code(result) ==
    IF result.success
    THEN <<SUCCESS_MSG, ".", NL>> \o result.stdout \o
         (IF result.plot_path # None
          THEN <<NL, PLOT_MSG, SP, result.plot_path>>
          ELSE <<>>)
    ELSE <<"Code execution failed with error:", NL>> \o result.stderr

-----------------------------------------------------------------------------
(* Inputs: the user's query, the reasoner's responses, the sandboxed       *)
(* process's behaviours                                                    *)

Queries == {<<"plot", SP, "sales">>, <<MARKER, "user_text">>}

PlanResponses == {<<"think">>, <<"all", SP, SENTINEL>>, <<"task_complete">>}

ActResponses ==
    { <<FENCE_PY, NL, "code_a", NL, FENCE>>,
      <<FENCE_PY, NL, FENCE>>,
      <<"here", FENCE, "code_b", FENCE>>,
      <<SP, "code_c", NL>> }

Stdouts == {<<"ok", NL>>, <<PLOT_MSG, SP, "fake.html", NL>>}

Stderrs == { <<"Traceback", NL>>,
             <<PLOT_MSG, SP, "fake.html", NL>>,
             <<SUCCESS_MSG, SP, PLOT_MSG, NL>> }

Quiet ==
    [mkdtemp |-> "ok", write |-> "ok", proc |-> "exit0", stdout |-> <<>>,
     stderr |-> <<>>, wrote |-> FALSE, rename |-> "ok", errtext |-> "",
     spawned |-> FALSE, dt |-> 0]

ExecOutcomes ==
    { [Quiet EXCEPT !.mkdtemp = "fail", !.errtext = "No space left on device"],
      [Quiet EXCEPT !.write = "fail", !.errtext = "surrogates not allowed"],
      [Quiet EXCEPT !.proc = "oserror", !.errtext = "Exec format error"] }
    \cup { [Quiet EXCEPT !.proc = "timeout", !.wrote = w, !.spawned = c] :
              w \in BOOLEAN, c \in BOOLEAN }
    \cup { [Quiet EXCEPT !.proc = "interrupt", !.wrote = w, !.spawned = c] :
              w \in BOOLEAN, c \in BOOLEAN }
    \cup { [Quiet EXCEPT !.wrote = TRUE, !.rename = "fail",
                         !.errtext = "Invalid cross-device link"] }
    \cup { [Quiet EXCEPT !.stdout = out, !.wrote = w, !.dt = k] :
              out \in Stdouts, w \in BOOLEAN, k \in 0..1 }
    \cup { [Quiet EXCEPT !.proc = "exit1", !.stderr = err, !.wrote = w,
                         !.dt = k] :
              err \in Stderrs, w \in BOOLEAN, k \in 0..1 }

-----------------------------------------------------------------------------
(* DataAnalysisAgent (src/src/agent/react_agent.py) *)

HumanMessage(content) == [role |-> "human", content |-> content]
AIMessage(content) == [role |-> "ai", content |-> content]

NoObs == [kind |-> "none", code |-> <<>>, result |-> NoResult]

NoSteps == [plan |-> 0, act |-> 0, observe |-> 0, llm |-> 0]

NoExtraction == [response |-> <<>>, code |-> <<>>]

\* run(): the initial state handed to graph.invoke
Init ==
    /\ \E q \in Queries : messages = <<HumanMessage(q)>>
    /\ iteration = 0
    /\ max_iterations \in 1..MaxIterations
    /\ task_complete = FALSE
    /\ pc = "plan"
    /\ error = "none"
    /\ now = 0
    /\ outputDir = {}
    /\ tempDirs = {}
    /\ procs = {}
    /\ execs = <<>>
    /\ steps = NoSteps
    /\ extraction = NoExtraction
    /\ lastAct = "none"
    /\ lastObs = NoObs

\* self.llm.invoke raises: the exception leaves graph.invoke and run()
llm_raises ==
    /\ pc = "plan" \/ (pc = "act" /\ ~task_complete)
    /\ pc' = "failed"
    /\ error' = "ReasonerError"
    /\ steps' = [steps EXCEPT !.llm = @ + 1]
    /\ UNCHANGED <<messages, iteration, max_iterations, task_complete, now,
                   outputDir, tempDirs, procs, execs, extraction, lastAct,
                   lastObs>>

\* variant: the node returns its local list, system prompt first, as the
\* new conversation history
plan_node_returns_prompted_list ==
    /\ pc = "plan"
    /\ \E response \in PlanResponses :
        /\ messages' = <<[role |-> "system", content |-> <<"system_prompt">>]>>
              \o Append(messages,
                   AIMessage(<<"**Thought: (Iteration ", ToString(iteration),
                               "):** ">> \o response))
        /\ task_complete' = Contains(Upper(response), SENTINEL)
    /\ pc' = "act"
    /\ steps' = [steps EXCEPT !.plan = @ + 1, !.llm = @ + 1]
    /\ UNCHANGED <<iteration, max_iterations, error, now, outputDir,
                   tempDirs, procs, execs, extraction, lastAct, lastObs>>

\* variant: the plan node counts the iteration as well
plan_node_counts ==
    /\ pc = "plan"
    /\ \E response \in PlanResponses :
        /\ messages' = Append(messages,
              AIMessage(<<"**Thought: (Iteration ", ToString(iteration),
                          "):** ">> \o response))
        /\ task_complete' = Contains(Upper(response), SENTINEL)
    /\ pc' = "act"
    /\ iteration' = iteration + 1
    /\ steps' = [steps EXCEPT !.plan = @ + 1, !.llm = @ + 1]
    /\ UNCHANGED <<max_iterations, error, now, outputDir,
                   tempDirs, procs, execs, extraction, lastAct, lastObs>>

plan_node ==
    /\ pc = "plan"
    /\ \E response \in PlanResponses :
        /\ messages' = Append(messages,
              AIMessage(<<"**Thought: (Iteration ", ToString(iteration),
                          "):** ">> \o response))
        /\ task_complete' = Contains(Upper(response), SENTINEL)
    /\ pc' = "act"
    /\ steps' = [steps EXCEPT !.plan = @ + 1, !.llm = @ + 1]
    /\ UNCHANGED <<iteration, max_iterations, error, now, outputDir,
                   tempDirs, procs, execs, extraction, lastAct, lastObs>>

\* variant: the early return for a completed task is missing
act_node_no_early_return ==
    /\ pc = "act"
    /\ \E response \in ActResponses :
         LET code == extract_code(response) IN
         /\ steps' = [steps EXCEPT !.act = @ + 1, !.llm = @ + 1]
         /\ extraction' = [response |-> response, code |-> code]
         /\ IF code = <<>>
            THEN /\ messages' = Append(messages, AIMessage(
                       <<"**Action: No code to execute. Need to rethink approach.**">>))
                 /\ task_complete' = FALSE
                 /\ lastAct' = "miss"
            ELSE /\ messages' = messages \o
                       << AIMessage(<<"**Action: Executing Python code:", NL,
                                      FENCE_PY, NL>> \o code \o
                                    <<NL, FENCE, "**">>),
                          HumanMessage(<<MARKER>> \o code) >>
                 /\ task_complete' = FALSE
                 /\ lastAct' = "queued"
    /\ pc' = "observe"
    /\ UNCHANGED <<iteration, max_iterations, error, now, outputDir,
                   tempDirs, procs, execs, lastObs>>

act_node ==
    /\ pc = "act"
    /\ IF task_complete
       THEN /\ messages' = messages
            /\ task_complete' = TRUE
            /\ lastAct' = "skipped"
            /\ steps' = [steps EXCEPT !.act = @ + 1]
            /\ extraction' = extraction
       ELSE \E response \in ActResponses :
            LET code == extract_code(response) IN
            /\ steps' = [steps EXCEPT !.act = @ + 1, !.llm = @ + 1]
            /\ extraction' = [response |-> response, code |-> code]
            /\ IF code = <<>>
               THEN /\ messages' = Append(messages, AIMessage(
                          <<"**Action: No code to execute. Need to rethink approach.**">>))
                    /\ task_complete' = FALSE
                    /\ lastAct' = "miss"
               ELSE /\ messages' = messages \o
                          << AIMessage(<<"**Action: Executing Python code:", NL,
                                         FENCE_PY, NL>> \o code \o
                                       <<NL, FENCE, "**">>),
                             HumanMessage(<<MARKER>> \o code) >>
                    /\ task_complete' = FALSE
                    /\ lastAct' = "queued"
    /\ pc' = "observe"
    /\ UNCHANGED <<iteration, max_iterations, error, now, outputDir,
                   tempDirs, procs, execs, lastObs>>

\* the scan of reversed(state["messages"]) for the marker; <<>> when the
\* scan leaves code = None or finds an empty snippet
RECURSIVE find_code(_)
find_code(msgs) ==
    IF msgs = <<>> THEN <<>>
    ELSE IF Contains(msgs[Len(msgs)].content, MARKER)
    THEN Strip(AfterFirst(msgs[Len(msgs)].content, MARKER))
    ELSE find_code(SubSeq(msgs, 1, Len(msgs) - 1))

\* variant: the test looks for a text the tool never writes
observation_complete_other_text(observation) ==
    Contains(observation, SUCCESS_MSG) /\ Contains(observation, "Plot saved to:")

\* the test that sets the local task_complete in _observe_node
observation_complete(observation) ==
    Contains(observation, SUCCESS_MSG) /\ Contains(observation, PLOT_MSG)

\* variant: the early return for a completed task is missing
observe_node_no_early_return ==
    /\ pc = "observe"
    /\ LET code == find_code(messages) IN
        IF code = <<>>
        THEN \* observation is bound, the local task_complete is not:
             \* the return statement raises UnboundLocalError
             /\ pc' = "failed"
             /\ error' = "UnboundLocalError"
             /\ lastObs' = [NoObs EXCEPT !.kind = "nocode"]
             /\ UNCHANGED <<messages, iteration, task_complete, now,
                            outputDir, tempDirs, procs, execs>>
        ELSE \E o \in ExecOutcomes :
             LET id == Len(execs) + 1
                 r  == execute_code(code, o, id, tempDirs, outputDir,
                                    procs, now)
                 observation == execute_python_code(r.result)
             IN  /\ now + o.dt <= MaxClock
                 /\ now' = r.now
                 /\ outputDir' = r.outputDir
                 /\ tempDirs' = r.tempDirs
                 /\ procs' = r.procs
                 /\ execs' = Append(execs,
                        [code |-> code, env |-> o, kind |-> r.kind,
                         result |-> r.result, found |-> r.found])
                 /\ lastObs' = [kind |-> "executed", code |-> code,
                                result |-> r.result]
                 /\ IF r.kind = "raise"
                    THEN /\ pc' = "failed"
                         /\ error' = r.exc
                         /\ UNCHANGED <<messages, iteration, task_complete>>
                    ELSE /\ messages' = Append(messages, AIMessage(
                               <<"**Observation: ">> \o observation \o <<"**">>))
                         /\ iteration' = iteration + 1
                         /\ task_complete' = observation_complete(observation)
                         /\ pc' = "check"
                         /\ error' = error
    /\ steps' = [steps EXCEPT !.observe = @ + 1]
    /\ UNCHANGED <<max_iterations, extraction, lastAct>>

observe_node ==
    /\ pc = "observe"
    /\ IF task_complete
       THEN /\ iteration' = iteration + 1
            /\ pc' = "check"
            /\ lastObs' = [NoObs EXCEPT !.kind = "skipped"]
            /\ UNCHANGED <<messages, task_complete, error, now, outputDir,
                           tempDirs, procs, execs>>
       ELSE LET code == find_code(messages) IN
            IF code = <<>>
            THEN \* observation is bound, the local task_complete is not:
                 \* the return statement raises UnboundLocalError
                 /\ pc' = "failed"
                 /\ error' = "UnboundLocalError"
                 /\ lastObs' = [NoObs EXCEPT !.kind = "nocode"]
                 /\ UNCHANGED <<messages, iteration, task_complete, now,
                                outputDir, tempDirs, procs, execs>>
            ELSE \E o \in ExecOutcomes :
                 LET id == Len(execs) + 1
                     r  == execute_code(code, o, id, tempDirs, outputDir,
                                        procs, now)
                     observation == execute_python_code(r.result)
                 IN  /\ now + o.dt <= MaxClock
                     /\ now' = r.now
                     /\ outputDir' = r.outputDir
                     /\ tempDirs' = r.tempDirs
                     /\ procs' = r.procs
                     /\ execs' = Append(execs,
                            [code |-> code, env |-> o, kind |-> r.kind,
                             result |-> r.result, found |-> r.found])
                     /\ lastObs' = [kind |-> "executed", code |-> code,
                                    result |-> r.result]
                     /\ IF r.kind = "raise"
                        THEN /\ pc' = "failed"
                             /\ error' = r.exc
                             /\ UNCHANGED <<messages, iteration, task_complete>>
                        ELSE /\ messages' = Append(messages, AIMessage(
                                   <<"**Observation: ">> \o observation \o <<"**">>))
                             /\ iteration' = iteration + 1
                             /\ task_complete' = observation_complete(observation)
                             /\ pc' = "check"
                             /\ error' = error
    /\ steps' = [steps EXCEPT !.observe = @ + 1]
    /\ UNCHANGED <<max_iterations, extraction, lastAct>>

\* variant: the budget test is written > instead of >=
should_continue_gt ==
    IF task_complete THEN "end"
    ELSE IF iteration > max_iterations THEN "end"
    ELSE IF messages # <<>> /\ Contains(messages[Len(messages)].content, PLOT_MSG)
    THEN "end"
    ELSE "continue"

\* variant: the task_complete test is missing
should_continue_ignores_flag ==
    IF iteration >= max_iterations THEN "end"
    ELSE IF messages # <<>> /\ Contains(messages[Len(messages)].content, PLOT_MSG)
    THEN "end"
    ELSE "continue"

should_continue ==
    IF task_complete THEN "end"
    ELSE IF iteration >= max_iterations THEN "end"
    ELSE IF messages # <<>> /\ Contains(messages[Len(messages)].content, PLOT_MSG)
    THEN "end"
    ELSE "continue"

\* the conditional edge out of observe
route ==
    /\ pc = "check"
    /\ pc' = IF should_continue = "continue" THEN "plan" ELSE "end"
    /\ UNCHANGED <<messages, iteration, max_iterations, task_complete, error,
                   now, outputDir, tempDirs, procs, execs, steps, extraction,
                   lastAct, lastObs>>

Next == llm_raises \/ plan_node \/ act_node \/ observe_node \/ route

Spec == Init /\ [][Next]_vars

-----------------------------------------------------------------------------
(* _extract_code on its own: every response text up to MaxLen tokens       *)

ResponseTokens == {FENCE_PY, FENCE, "a", "b", NL}

RECURSIVE Texts(_)
Texts(n) ==
    IF n = 0 THEN {<<>>}
    ELSE LET shorter == Texts(n - 1) IN
         shorter \cup {Append(t, tok) : t \in {u \in shorter : Len(u) = n - 1},
                                        tok \in ResponseTokens}

ExtractInit ==
    /\ messages = <<>>
    /\ iteration = 0
    /\ max_iterations = 1
    /\ task_complete = FALSE
    /\ pc = "extract"
    /\ error = "none"
    /\ now = 0
    /\ outputDir = {}
    /\ tempDirs = {}
    /\ procs = {}
    /\ execs = <<>>
    /\ steps = NoSteps
    /\ \E response \in Texts(MaxLen) :
           extraction = [response |-> response, code |-> <<>>]
    /\ lastAct = "none"
    /\ lastObs = NoObs

\* code = self._extract_code(response.content)
extract_code_call ==
    /\ pc = "extract"
    /\ extraction' = [extraction EXCEPT !.code = extract_code(extraction.response)]
    /\ pc' = "extracted"
    /\ UNCHANGED <<messages, iteration, max_iterations, task_complete, error,
                   now, outputDir, tempDirs, procs, execs, steps, lastAct,
                   lastObs>>

ExtractNext == extract_code_call

SpecExtract == ExtractInit /\ [][ExtractNext]_vars

-----------------------------------------------------------------------------
(* Properties *)

\* the engine invocations that returned an artifact path
Persisted == {i \in DOMAIN execs : execs[i].result.plot_path # None}

\* the environments in which some call made by execute_code fails
FailureMode(o) ==
    \/ o.mkdtemp = "fail"
    \/ o.write = "fail"
    \/ o.proc \in {"timeout", "oserror"}
    \/ (o.wrote /\ o.rename = "fail")

\* the last Observe step ran a snippet and the tool returned
Executed == lastObs.kind = "executed" /\ execs[Len(execs)].kind = "return"

\* C1: in every reachable state of the loop, the final state included,
\* iteration <= iterationLimit.
C1_IterationWithinLimit == iteration <= max_iterations

C1_Witness ==
    pc = "end" /\ ~task_complete /\ iteration = max_iterations /\ iteration >= 2

\* C2: provided the reasoner and the engine return, no run aborts inside a
\* phase: a run that stopped without reaching the end of the graph stopped
\* on a failed reasoner or engine call, or on the caller's interrupt.
C2_NoAbortInsidePhase ==
    pc = "failed" => error \in {"ReasonerError", "OSError", "UnicodeEncodeError",
                                "KeyboardInterrupt"}

\* C3: after an Observe step whose result has success = true and no artifact
\* path, done is false, and the termination check ends the run only when the
\* budget is spent, whatever the snippet printed.
C3_SuccessWithoutArtifactContinues ==
    ( /\ pc \in {"check", "end"}
      /\ Executed
      /\ lastObs.result.success
      /\ lastObs.result.plot_path = None )
    => (~task_complete /\ (pc = "end" => iteration >= max_iterations))

\* C4: any two engine invocations that persisted an artifact returned
\* distinct paths, and the output directory holds one file per such
\* invocation.
C4_ArtifactsNeverCollide ==
    /\ \A i, j \in Persisted :
          i # j => execs[i].result.plot_path # execs[j].result.plot_path
    /\ Cardinality(outputDir) = Cardinality(Persisted)

\* C5: no engine invocation that the caller did not interrupt raises into
\* its caller, and every invocation in which a call failed returned
\* success = false with a non-empty stderr.
C5_NoExceptionEscapes ==
    \A i \in DOMAIN execs :
        /\ execs[i].env.proc # "interrupt" => execs[i].kind = "return"
        /\ FailureMode(execs[i].env) =>
              (~execs[i].result.success /\ execs[i].result.stderr # <<>>)

\* C6: when an engine invocation has handed control back, on any exit path,
\* its temporary directory is gone from the disk.
C6_WorkspaceRemoved ==
    \A i \in DOMAIN execs : \A t \in tempDirs : t.dir # i

C6_Witness ==
    /\ Len(execs) = 2
    /\ execs[1].env.proc = "timeout" /\ execs[1].env.wrote
    /\ execs[2].env.write = "fail" /\ execs[2].kind = "raise"

\* the user's query is ordinary text: it does not hold the marker
PlainQuery == ~Contains(messages[1].content, MARKER)

\* C7: after an extraction miss in Act (in a run on an ordinary query), the
\* Observe step of that cycle invokes no execution, appends one note, does
\* not fail, and the loop goes back to Plan while the budget lasts.
C7_ExtractionMissRecovers ==
    [][ /\ (pc = "observe" /\ lastAct = "miss" /\ PlainQuery) =>
              /\ pc' = "check"
              /\ error' = "none"
              /\ execs' = execs
              /\ Len(messages') = Len(messages) + 1
        /\ ( /\ pc = "check" /\ lastAct = "miss" /\ PlainQuery
             /\ iteration < max_iterations ) =>
              pc' = "plan" ]_vars

\* C8: an Observe step whose result has success = false appends one
\* observation, adds exactly one to iteration, leaves done false, and the
\* loop goes back to Plan while the budget lasts, whatever stderr holds.
C8_FailureConsumesOneIteration ==
    [][ /\ ( /\ pc = "observe" /\ pc' = "check"
             /\ lastObs'.kind = "executed"
             /\ ~lastObs'.result.success ) =>
              /\ iteration' = iteration + 1
              /\ Len(messages') = Len(messages) + 1
              /\ ~task_complete'
        /\ ( /\ pc = "check" /\ Executed
             /\ ~lastObs.result.success
             /\ iteration < max_iterations ) =>
              pc' = "plan" ]_vars

\* C9: in every final state, done = false implies that the budget is spent.
C9_DoneTellsBudgetStop ==
    (pc = "end" /\ ~task_complete) => iteration >= max_iterations

\* C10: done is false when the run starts; once it is true every later step
\* keeps it true, and the run never enters Plan again but ends at the next
\* termination check.
C10_DoneMonotonic ==
    [][ /\ (pc = "plan" /\ iteration = 0) => ~task_complete
        /\ task_complete => (task_complete' /\ pc' # "plan")
        /\ (task_complete /\ pc = "check") => pc' = "end" ]_vars

C10_Witness ==
    pc = "end" /\ task_complete /\ lastObs.kind = "skipped" /\
    iteration < max_iterations

\* the environment of the last engine invocation
LastEnv == execs[Len(execs)].env

\* the content of the last message of the transcript
LastContent == messages[Len(messages)].content

\* the move of output.html into the output directory fails
RelocationFails(o) == o.wrote /\ o.rename = "fail"

InOutputDir(path) == \E f \in outputDir : "output/" \o f.name = path

TimeoutMessage(n) == <<"Execution timeout expired (" \o ToString(n) \o "s).">>

\* C14: an invocation whose process ran into the timeout returns a result
\* with success = false, no artifact path and a stderr that names the
\* timeout in seconds; the loop gets a failure observation for it.
C14_TimeoutResult ==
    \A i \in DOMAIN execs :
        execs[i].env.proc = "timeout" =>
            /\ execs[i].kind = "return"
            /\ ~execs[i].result.success
            /\ execs[i].result.plot_path = None
            /\ execs[i].result.stderr = TimeoutMessage(timeout)
            /\ ~Contains(execute_python_code(execs[i].result), SUCCESS_MSG)

\* C15: after an invocation that ran into the timeout has returned, no
\* process it started is alive, neither the script nor a descendant.
C15_NoProcessSurvivesTimeout ==
    \A i \in DOMAIN execs :
        execs[i].env.proc = "timeout" => \A p \in procs : p.exec # i

\* C16: the observation appended for a returned result is, for success,
\* the success line followed by stdout and by the plot line iff an artifact
\* path is present; for failure, the failure line followed by stderr, with
\* no plot line and no artifact path added.
C16_ObservationRendersResult ==
    (pc \in {"check", "end"} /\ Executed) =>
        LET res  == lastObs.result
            body == SubSeq(LastContent, 2, Len(LastContent) - 1)
            okLine   == <<SUCCESS_MSG, ".", NL>>
            failLine == <<"Code execution failed with error:", NL>>
            plotLine == <<NL, PLOT_MSG, SP, res.plot_path>>
        IN  /\ LastContent[1] = "**Observation: "
            /\ LastContent[Len(LastContent)] = "**"
            /\ (res.success /\ res.plot_path # None) =>
                  body = okLine \o res.stdout \o plotLine
            /\ (res.success /\ res.plot_path = None) =>
                  body = okLine \o res.stdout
            /\ ~res.success =>
                  /\ body = failLine \o res.stderr
                  /\ res.plot_path # None => ~Contains(body, res.plot_path)

C16_Witness ==
    /\ pc = "check" /\ Executed
    /\ ~lastObs.result.success /\ lastObs.result.plot_path # None
    /\ Len(execs) = 2
    /\ execs[1].result.success /\ execs[1].result.plot_path = None

\* no response of the reasoner holds the completion sentinel
NoSentinel ==
    \A i \in DOMAIN messages :
        messages[i].role = "ai" => ~Contains(Upper(messages[i].content), SENTINEL)

\* no snippet has left output.html
NoArtifact == \A i \in DOMAIN execs : ~execs[i].env.wrote

\* C17: a run with iterationLimit = 1 in which the reasoner never emits the
\* sentinel, Act queues a snippet and no snippet produces an artifact ends
\* after one Plan, one Act, one Observe and one engine invocation with
\* done = false and iteration = 1.
C17_SingleCycleBudgetStop ==
    ( /\ max_iterations = 1 /\ NoSentinel /\ NoArtifact
      /\ lastAct = "queued" /\ pc = "end" ) =>
        /\ steps.plan = 1 /\ steps.act = 1 /\ steps.observe = 1
        /\ Len(execs) = 1
        /\ ~task_complete
        /\ iteration = 1

\* C18: a Plan response that holds the sentinel sets done; the Act step of
\* that cycle calls the reasoner no second time and appends nothing, the
\* Observe step runs nothing, appends nothing and adds one to iteration,
\* and the termination check ends the run with done = true.
C18_SentinelCycle ==
    [][ /\ ( /\ pc = "plan" /\ pc' = "act"
             /\ Contains(Upper(messages'[Len(messages')].content), SENTINEL) ) =>
              task_complete'
        /\ (pc = "act" /\ task_complete) =>
              /\ pc' = "observe"
              /\ messages' = messages
              /\ steps'.llm = steps.llm
              /\ find_code(messages') = find_code(messages)
              /\ task_complete'
        /\ (pc = "observe" /\ task_complete) =>
              /\ pc' = "check"
              /\ execs' = execs
              /\ messages' = messages
              /\ iteration' = iteration + 1
              /\ task_complete'
        /\ (pc = "check" /\ task_complete /\ lastObs.kind = "skipped") =>
              (pc' = "end" /\ task_complete') ]_vars

C18_Witness ==
    /\ pc = "end" /\ task_complete
    /\ lastAct = "skipped" /\ lastObs.kind = "skipped"
    /\ steps.plan = 2 /\ steps.llm = 3
    /\ Len(execs) = 1 /\ iteration = 2

\* C19: iteration is 0 when the run starts, Plan, Act and the termination
\* check leave it alone, an Observe step that completes adds exactly one,
\* one that aborts adds nothing, and max_iterations never changes.
C19_IterationFrame ==
    [][ /\ steps = NoSteps => iteration = 0
        /\ max_iterations' = max_iterations
        /\ pc \in {"plan", "act", "check"} => iteration' = iteration
        /\ (pc = "observe" /\ pc' = "check") => iteration' = iteration + 1
        /\ (pc = "observe" /\ pc' = "failed") => iteration' = iteration ]_vars

C19_Witness ==
    /\ pc = "check" /\ iteration = 2 /\ steps.observe = 2
    /\ lastObs.kind = "skipped" /\ Len(execs) = 1

\* the text between its first and its last token that is not white space
Trimmed(text) ==
    LET solid == {k \in DOMAIN text : ~IsSpace(text[k])} IN
    IF solid = {} THEN <<>>
    ELSE SubSeq(text, CHOOSE k \in solid : \A m \in solid : k <= m,
                      CHOOSE k \in solid : \A m \in solid : k >= m)

\* the positions of the fence delimiters of a text, tagged or not
Fences(text) == {k \in DOMAIN text : text[k] \in {FENCE, FENCE_PY}}

\* the text after position i up to the next fence delimiter, or to the end
Interior(text, i) ==
    LET closing == {k \in Fences(text) : k > i} IN
    IF closing = {} THEN SubSeq(text, i + 1, Len(text))
    ELSE SubSeq(text, i + 1, (CHOOSE k \in closing : \A m \in closing : k <= m) - 1)

FirstAt(text, tok) ==
    CHOOSE k \in DOMAIN text : text[k] = tok /\ \A m \in 1..(k - 1) : text[m] # tok

Tagged(text) == \E k \in DOMAIN text : text[k] = FENCE_PY

\* the segment that the first two delimiters of an untagged text bound
Middle(text) == Interior(text, FirstAt(text, FENCE))

\* C20 as stated: a tagged block yields its trimmed interior; otherwise two
\* or more delimiters that bound a middle segment which is not blank yield
\* that trimmed segment; otherwise the snippet is the whole trimmed text.
C20_ExtractionPolicy ==
    pc = "extracted" =>
        LET text == extraction.response
            code == extraction.code
        IN  IF Tagged(text)
            THEN code = Trimmed(Interior(text, FirstAt(text, FENCE_PY)))
            ELSE IF Cardinality(Fences(text)) >= 2 /\ Trimmed(Middle(text)) # <<>>
            THEN code = Trimmed(Middle(text))
            ELSE code = Trimmed(text)

\* C20 amended: a tagged opening fence yields the trimmed text up to the
\* next delimiter or the end; otherwise two or more delimiters yield the
\* trimmed segment between the first two, blank or not; otherwise the
\* snippet is the whole trimmed text; the result is always a text.
C20_ExtractionPolicyAnyMiddle ==
    pc = "extracted" =>
        LET text == extraction.response
            code == extraction.code
        IN  /\ code \in Seq(ResponseTokens)
            /\ IF Tagged(text)
               THEN code = Trimmed(Interior(text, FirstAt(text, FENCE_PY)))
               ELSE IF Cardinality(Fences(text)) >= 2
               THEN code = Trimmed(Middle(text))
               ELSE code = Trimmed(text)

C20_Witness ==
    /\ pc = "extracted"
    /\ ~Tagged(extraction.response)
    /\ Cardinality(Fences(extraction.response)) >= 2
    /\ Trimmed(Middle(extraction.response)) = <<>>
    /\ Trimmed(extraction.response) # <<>>
    /\ extraction.code = <<>>

\* s is an initial segment of t
IsPrefix(s, t) == Len(s) <= Len(t) /\ SubSeq(t, 1, Len(s)) = s

\* C21: the transcript starts as the single entry of the user's query, and
\* every step leaves the previous transcript as a prefix of the new one.
C21_TranscriptAppendOnly ==
    [][ /\ steps = NoSteps =>
              (Len(messages) = 1 /\ messages[1].role = "human")
        /\ IsPrefix(messages, messages') ]_vars

C21_Witness ==
    /\ pc = "end" /\ Len(messages) = 9
    /\ steps.plan = 2 /\ steps.act = 2 /\ steps.observe = 2
    /\ messages[1].role = "human" /\ messages[9].role = "ai"

\* the engine invocations that the caller's interrupt reached while the
\* sandboxed process was running
Interrupted == {i \in DOMAIN execs : execs[i].env.proc = "interrupt"}

\* C22: when the caller's interrupt reaches an engine invocation in flight,
\* the interrupt leaves execute_code and the run, the workspace of that
\* invocation is gone and the process the engine started is not running.
C22_CancelledInvocationCleansUp ==
    \A i \in Interrupted :
        /\ execs[i].kind = "raise"
        /\ pc = "failed" /\ error = "KeyboardInterrupt"
        /\ ~\E t \in tempDirs : t.dir = i
        /\ [exec |-> i, role |-> "script"] \notin procs

C22_Witness ==
    /\ Len(execs) = 2 /\ 2 \in Interrupted
    /\ execs[2].env.wrote /\ ~execs[2].env.spawned
    /\ pc = "failed" /\ tempDirs = {} /\ procs = {}

\* C23: the engine is invoked only by an Observe step that found done
\* false on entry, once per step, so that the number of invocations never
\* exceeds the number of cycles begun nor max_iterations.
C23_EngineOnlyInObserve ==
    [][ /\ execs' # execs =>
              /\ pc = "observe" /\ ~task_complete
              /\ Len(execs') = Len(execs) + 1
              /\ SubSeq(execs', 1, Len(execs)) = execs
              /\ steps'.observe = steps.observe + 1
        /\ Len(execs) <= steps.observe /\ Len(execs') <= steps'.observe
        /\ steps.observe <= steps.plan /\ steps'.observe <= steps'.plan
        /\ Len(execs) <= max_iterations /\ Len(execs') <= max_iterations' ]_vars

C23_Witness ==
    /\ pc = "end" /\ max_iterations = 2
    /\ Len(execs) = 2 /\ steps.observe = 2 /\ steps.plan = 2

\* C24: a snippet handed to the engine by an Observe step is the snippet
\* that the Act step of the same cycle queued: that Act step queued one,
\* and the code executed is the code it extracted.
C24_ExecutesSnippetOfSameCycle ==
    [][ execs' # execs =>
            /\ lastAct = "queued"
            /\ execs'[Len(execs')].code = extraction.code ]_vars

====
